---- MODULE Spec2Model ----
(***************************************************************************)
(* Model of src/src/mortgage.py: MortgageParams, MortgageCalculator and    *)
(* MortgageSchedule (construction, payment_amounts, build_schedule_df).    *)
(*                                                                         *)
(* Numbers.  The program computes in IEEE doubles.  The model computes in  *)
(* decimal fixed point with six fractional digits: the integer v stands    *)
(* for the number v / Scale.  Addition, subtraction and comparison are     *)
(* exact; every product, quotient, power and root is rounded to the        *)
(* nearest representable value, as a double operation is, only at a        *)
(* coarser resolution (1e-6 absolute instead of 2^-53 relative).  All      *)
(* intermediate values are kept below 2^31.                                *)
(***************************************************************************)
EXTENDS Integers, Sequences, FiniteSets, TLC

(***************************************************************************)
(* Bounds of the model and the inputs drawn.                               *)
(***************************************************************************)
MaxYears == 3

K == 10^3
Scale == K * K

\* "no value": a field or local that has not been assigned
None == 0 - 1

\* principals: 0 (invalid), 1.00 and 10.00
Principals == {0, Scale, 10 * Scale}
\* quoted annual rates in percent: -1 (invalid), 0, 5.49 and 2100
QuotedRates == {0 - Scale, 0, 5490000, 2100 * Scale}
\* amortization and term years: 0 is invalid
Years == 0..MaxYears
\* the keys callers pass to build_schedule_df: the six of FREQS and a stranger
RequestKeys == {"monthly", "semi_monthly", "bi_weekly", "weekly",
                "rapid_biweekly", "rapid_weekly", "daily"}

(***************************************************************************)
(* MortgageSchedule.FREQS, the static frequency table                      *)
(***************************************************************************)
FREQS ==
    ("monthly" :> [m |-> 12, label |-> "Monthly"]) @@
    ("semi_monthly" :> [m |-> 24, label |-> "Semi-monthly"]) @@
    ("bi_weekly" :> [m |-> 26, label |-> "Bi-weekly"]) @@
    ("weekly" :> [m |-> 52, label |-> "Weekly"]) @@
    ("rapid_biweekly" :> [m |-> 26, label |-> "Rapid Bi-weekly"]) @@
    ("rapid_weekly" :> [m |-> 52, label |-> "Rapid Weekly"])

\* a table that lost its "weekly" entry
FreqKeysLost == DOMAIN FREQS \ {"weekly"}

\* the keys `freq_key in self.FREQS` accepts
FreqKeys == DOMAIN FREQS

(***************************************************************************)
(* Fixed-point arithmetic.                                                 *)
(***************************************************************************)
\* a * b, rounded to nearest; a, b >= 0.  The operands are split in base K
\* so that no partial product leaves 32 bits.
Mul(a, b) ==
    LET a1 == a \div K
        a0 == a % K
        b1 == b \div K
        b0 == b % K
    IN  a1 * b1 + ((a1 * b0 + a0 * b1) + (a0 * b0 + Scale \div 2) \div K) \div K

RECURSIVE DivDigits(_, _, _, _)
DivDigits(q, rem, b, d) ==
    IF d = 0
    THEN q + (IF 2 * rem >= b THEN 1 ELSE 0)
    ELSE DivDigits(q * 10 + (rem * 10) \div b, (rem * 10) % b, b, d - 1)

\* a / b, rounded to nearest, by long division: one decimal digit per step
\* for the six fractional digits.  a >= 0, 0 < b < 2^31 / 10.
Div(a, b) == DivDigits(a \div b, a % b, b, 6)

\* x ** n for 0 <= x <= 1.0 and an integer n >= 0, by repeated squaring
RECURSIVE Pow(_, _)
Pow(x, n) ==
    IF n = 0 THEN Scale
    ELSE LET h == Pow(x, n \div 2)
             sq == Mul(h, h)
         IN  IF n % 2 = 0 THEN sq ELSE Mul(sq, x)

\* y ** n for 1.0 <= y <= 2.0, saturating at Saturated once the value
\* passes 900.0 (above every 1 + ear the model draws)
Saturated == K * K * K
RECURSIVE PowCap(_, _)
PowCap(y, n) ==
    IF n = 0 THEN Scale
    ELSE LET h == PowCap(y, n \div 2)
         IN  IF h > 30 * Scale THEN Saturated
             ELSE LET sq == Mul(h, h)
                  IN  IF n % 2 = 0 THEN sq
                      ELSE IF sq >= 400 * Scale THEN Saturated
                      ELSE Mul(sq, y)

\* x ** (1 / m) for 1.0 <= x < 900.0: the largest y in [lo, hi] with
\* y ** m <= x, by bisection
RECURSIVE RootIn(_, _, _, _)
RootIn(x, m, lo, hi) ==
    IF lo >= hi THEN lo
    ELSE LET mid == (lo + hi + 1) \div 2
         IN  IF PowCap(mid, m) <= x
             THEN RootIn(x, m, mid, hi)
             ELSE RootIn(x, m, lo, mid - 1)

\* MortgageCalculator.ear_from_semi_annual_quote
ear_from_semi_annual_quote(quoted_rate_percent) ==
    LET j == Div(quoted_rate_percent, 100 * Scale)
        h == Scale + Div(j, 2 * Scale)
    IN  Mul(h, h) - Scale

\* The roots the drawn rates and the frequencies of FREQS ask for, computed
\* once: RootMemo[x, m] is RootIn(x, m, Scale, 2 * Scale) and nothing else.
RootMemo ==
    [x \in {Scale + ear_from_semi_annual_quote(q) :
               q \in {q \in QuotedRates : q >= 0}},
     m \in {FREQS[k].m : k \in DOMAIN FREQS} |-> RootIn(x, m, Scale, 2 * Scale)]

Root(x, m) ==
    IF <<x, m>> \in DOMAIN RootMemo
    THEN RootMemo[x, m]
    ELSE RootIn(x, m, Scale, 2 * Scale)

(***************************************************************************)
(* MortgageParams                                                          *)
(***************************************************************************)
MortgageParams(principal, quoted_rate_percent, amort_years, term_years) ==
    [principal |-> principal, quoted_rate_percent |-> quoted_rate_percent,
     amort_years |-> amort_years, term_years |-> term_years]

\* validate without its last test
validate_no_term_test(p) ==
    IF p.principal <= 0 THEN "Principal must be positive."
    ELSE IF p.quoted_rate_percent < 0
         THEN "Quoted rate percent must be non-negative."
    ELSE IF p.amort_years <= 0 THEN "Amortization years must be positive."
    ELSE IF p.term_years <= 0 THEN "Term years must be positive."
    ELSE ""

\* validate: the message of the ValueError raised, "" when it returns
validate(p) ==
    IF p.principal <= 0 THEN "Principal must be positive."
    ELSE IF p.quoted_rate_percent < 0
         THEN "Quoted rate percent must be non-negative."
    ELSE IF p.amort_years <= 0 THEN "Amortization years must be positive."
    ELSE IF p.term_years <= 0 THEN "Term years must be positive."
    ELSE IF p.term_years > p.amort_years
         THEN "Term years cannot exceed amortization years."
    ELSE ""

(***************************************************************************)
(* MortgageCalculator                                                      *)
(***************************************************************************)
pva(rate, n) ==
    IF rate = 0 THEN n * Scale
    ELSE Div(Scale - Pow(Div(Scale, Scale + rate), n), rate)

periodic_rate(ear, m) == Root(Scale + ear, m) - Scale

level_payment(principal, quoted_rate_percent, amort_years, m) ==
    LET ear == ear_from_semi_annual_quote(quoted_rate_percent)
        r == periodic_rate(ear, m)
        n == amort_years * m
    IN  Div(principal, pva(r, n))

(***************************************************************************)
(* MortgageSchedule                                                        *)
(***************************************************************************)
\* key.startswith("rapid") / freq_key in ("rapid_biweekly", "rapid_weekly")
IsRapid(key) == key \in {"rapid_biweekly", "rapid_weekly"}

\* the fields of a MortgageSchedule object
Self(p, e, s) == [params |-> p, ear |-> e, smp |-> s]

\* __init__ after params.validate() has returned
init(p) ==
    Self(p,
         ear_from_semi_annual_quote(p.quoted_rate_percent),
         level_payment(p.principal, p.quoted_rate_percent, p.amort_years, 12))

\* np.round(v, 2): to the nearest cent
Round2(v) == ((v + Scale \div 200) \div (Scale \div 100)) * (Scale \div 100)

\* payment_amounts, before the rounding of its return statement
payment_amounts_raw(self) ==
    LET p == self.params
    IN  [key \in FreqKeys |->
            IF key = "rapid_biweekly" THEN Div(self.smp, 2 * Scale)
            ELSE IF key = "rapid_weekly" THEN Div(self.smp, 4 * Scale)
            ELSE level_payment(p.principal, p.quoted_rate_percent,
                               p.amort_years, FREQS[key].m)]

\* the dict comprehension of its return statement
RoundAll(raw) == [key \in DOMAIN raw |-> Round2(raw[key])]

payment_amounts(self) == RoundAll(payment_amounts_raw(self))

\* a rapid payment that is half the monthly one for both rapid keys
RapidPaymentHalf(smp, freq_key) == Div(smp, 2 * Scale)

\* the payment of a rapid schedule
RapidPayment(smp, freq_key) ==
    Div(smp, (IF freq_key = "rapid_biweekly" THEN 2 ELSE 4) * Scale)

\* the payment build_schedule_df uses
SchedulePayment(self, freq_key) ==
    IF IsRapid(freq_key)
    THEN RapidPayment(self.smp, freq_key)
    ELSE level_payment(self.params.principal, self.params.quoted_rate_percent,
                       self.params.amort_years, FREQS[freq_key].m)

Row(t, start, interest, payment, end) ==
    [Period |-> t, StartBalance |-> start, Interest |-> interest,
     Payment |-> payment, EndBalance |-> end]

\* the currency floor 0.01 of the near-zero test
Cent == Scale \div 100

\* if principal_repay > start
Overpays(payment, interest, start) == payment - interest > start

\* a capped row that pays the balance without its interest
CapRowNoInterest(t, start, interest) == Row(t, start, interest, start, 0)

\* the row of a capped period
CapRow(t, start, interest) == Row(t, start, interest, start + interest, 0)

\* an ordinary row whose whole payment goes to the balance
NormalRowNoInterest(t, start, interest, payment) ==
    Row(t, start, interest, payment, start - payment)

\* the row of an ordinary period
NormalRow(t, start, interest, payment) ==
    Row(t, start, interest, payment, start - (payment - interest))

\* a near-zero test against 0 instead of 0.01
NearZeroExact(balance) == balance <= 0

\* if balance <= 0.01: break
NearZero(balance) == balance <= Cent

\* a loop that goes on after a capped period
GoOnAfterCap == FALSE

\* the break that ends the capped branch
BreakAfterCap == TRUE

\* one pass of the for body on (t, balance): the row it appends and whether
\* it leaves the loop (either break)
Iteration(t, balance, r, payment) ==
    LET start == balance
        interest == Mul(start, r)
    IN  IF Overpays(payment, interest, start)
        THEN [row |-> CapRow(t, start, interest), stop |-> BreakAfterCap]
        ELSE LET row == NormalRow(t, start, interest, payment)
             IN  [row |-> row, stop |-> NearZero(row.EndBalance)]

\* the locals of a call that has computed nothing
NoLocals(err) == [error |-> err, r |-> None, payment |-> None, n_term |-> None]

\* the statements of build_schedule_df before its loop
BuildLocals(self, freq_key) ==
    IF freq_key \notin FreqKeys THEN NoLocals("KeyError")
    ELSE LET m == FREQS[freq_key].m
         IN  [error |-> "",
              r |-> periodic_rate(self.ear, m),
              payment |-> SchedulePayment(self, freq_key),
              n_term |-> self.params.term_years * m]

\* a build_schedule_df that stores the payment it worked out in the field
\* of the standard monthly payment
build_schedule_df_storing(self, freq_key) ==
    LET l == BuildLocals(self, freq_key)
    IN  [self |-> IF l.error = "" THEN Self(self.params, self.ear, l.payment)
                  ELSE self,
         locals |-> l]

\* build_schedule_df up to its loop: the object as the call leaves it, and the
\* locals of the call
build_schedule_df(self, freq_key) ==
    [self |-> self, locals |-> BuildLocals(self, freq_key)]

(***************************************************************************)
(* State                                                                   *)
(***************************************************************************)
VARIABLES
    phase,         \* "start", "params" (a MortgageParams exists), "ok" (a
                   \* MortgageSchedule exists), "error" (__init__ raised)
    params,        \* the MortgageParams object
    ear,           \* MortgageSchedule._ear
    smp,           \* MortgageSchedule._standard_monthly_pmt
    ctor,          \* the fields as __init__ left them
    error,         \* message of the exception of the last call, "" if none
    call,          \* the last method called: "none", "build", "payment_amounts"
    pc,            \* "idle", or inside build_schedule_df: "loop", "return"
    key,           \* freq_key of the last build_schedule_df call
    locals,        \* r, payment, n_term of that call
    t,             \* loop variable
    balance,       \* local balance
    rows,          \* local rows, the data of the returned frame
    payments_raw,  \* payment_amounts before rounding, when it was the last call
    payments,      \* what payment_amounts returned, when it was the last call
    kept           \* one frame a caller kept: its key and rows

vars == <<phase, params, ear, smp, ctor, error, call, pc, key, locals, t,
          balance, rows, payments_raw, payments, kept>>

NoParams == MortgageParams(None, None, None, None)
NoSelf == Self(NoParams, None, None)
NoPayments == [k \in FreqKeys |-> None]
NoFrame == [key |-> "", rows |-> <<>>]

Init ==
    /\ phase = "start"
    /\ params = NoParams
    /\ ear = None
    /\ smp = None
    /\ ctor = NoSelf
    /\ error = ""
    /\ call = "none"
    /\ pc = "idle"
    /\ key = ""
    /\ locals = NoLocals("")
    /\ t = 0
    /\ balance = None
    /\ rows = <<>>
    /\ payments_raw = NoPayments
    /\ payments = NoPayments
    /\ kept = NoFrame

\* MortgageParams(principal=..., ...): a frozen dataclass, no __post_init__
NewParams ==
    /\ phase = "start"
    /\ \E principal \in Principals, rate \in QuotedRates,
          amort \in Years, term \in Years :
          params' = MortgageParams(principal, rate, amort, term)
    /\ phase' = "params"
    /\ UNCHANGED <<ear, smp, ctor, error, call, pc, key, locals, t, balance,
                   rows, payments_raw, payments, kept>>

\* the same, for loans of a term of at most one year
NewParamsShort ==
    /\ phase = "start"
    /\ \E principal \in Principals, rate \in QuotedRates,
          amort \in Years, term \in {0, 1} :
          params' = MortgageParams(principal, rate, amort, term)
    /\ phase' = "params"
    /\ UNCHANGED <<ear, smp, ctor, error, call, pc, key, locals, t, balance,
                   rows, payments_raw, payments, kept>>

\* MortgageSchedule(params)
NewSchedule ==
    /\ phase = "params"
    /\ LET msg == validate(params)
       IN  IF msg # ""
           THEN /\ phase' = "error"
                /\ error' = msg
                /\ UNCHANGED <<ear, smp, ctor>>
           ELSE LET self == init(params)
                IN  /\ phase' = "ok"
                    /\ error' = ""
                    /\ ear' = self.ear
                    /\ smp' = self.smp
                    /\ ctor' = self
    /\ UNCHANGED <<params, call, pc, key, locals, t, balance, rows,
                   payments_raw, payments, kept>>

\* sched.build_schedule_df(freq_key), up to the for statement
BuildSchedule ==
    /\ phase = "ok"
    /\ pc = "idle"
    /\ \E freq_key \in RequestKeys :
          LET res == build_schedule_df(Self(params, ear, smp), freq_key)
          IN  /\ params' = res.self.params
              /\ ear' = res.self.ear
              /\ smp' = res.self.smp
              /\ locals' = res.locals
              /\ error' = res.locals.error
              /\ key' = freq_key
              /\ IF res.locals.error # ""
                 THEN /\ pc' = "idle"
                      /\ t' = 0
                      /\ balance' = None
                 ELSE /\ pc' = IF res.locals.n_term >= 1 THEN "loop" ELSE "return"
                      /\ t' = 1
                      /\ balance' = res.self.params.principal
    /\ call' = "build"
    /\ rows' = <<>>
    /\ payments_raw' = NoPayments
    /\ payments' = NoPayments
    /\ UNCHANGED <<phase, ctor, kept>>

\* one iteration of `for t in range(1, n_term + 1)`
LoopStep ==
    /\ pc = "loop"
    /\ LET it == Iteration(t, balance, locals.r, locals.payment)
       IN  /\ rows' = Append(rows, it.row)
           /\ balance' = it.row.EndBalance
           /\ IF it.stop \/ t = locals.n_term
              THEN pc' = "return" /\ t' = t
              ELSE pc' = "loop" /\ t' = t + 1
    /\ UNCHANGED <<phase, params, ear, smp, ctor, error, call, key, locals,
                   payments_raw, payments, kept>>

\* the frame is made of rows and returned
Return ==
    /\ pc = "return"
    /\ pc' = "idle"
    /\ UNCHANGED <<phase, params, ear, smp, ctor, error, call, key, locals, t,
                   balance, rows, payments_raw, payments, kept>>

\* the frame is returned to a caller that keeps it (`df = ...`)
ReturnAndKeep ==
    /\ pc = "return"
    /\ kept = NoFrame
    /\ pc' = "idle"
    /\ kept' = [key |-> key, rows |-> rows]
    /\ UNCHANGED <<phase, params, ear, smp, ctor, error, call, key, locals, t,
                   balance, rows, payments_raw, payments>>

\* sched.payment_amounts()
PaymentAmounts ==
    /\ phase = "ok"
    /\ pc = "idle"
    /\ payments_raw' = payment_amounts_raw(Self(params, ear, smp))
    /\ payments' = RoundAll(payments_raw')
    /\ call' = "payment_amounts"
    /\ error' = ""
    /\ UNCHANGED <<phase, params, ear, smp, ctor, pc, key, locals, t, balance,
                   rows, kept>>

Next ==
    \/ NewParams
    \/ NewSchedule
    \/ BuildSchedule
    \/ LoopStep
    \/ Return
    \/ PaymentAmounts

Spec == Init /\ [][Next]_vars

\* Callers that keep a returned frame while they call on, on short loans
NextKeep ==
    \/ NewParamsShort
    \/ NewSchedule
    \/ BuildSchedule
    \/ LoopStep
    \/ Return
    \/ ReturnAndKeep
    \/ PaymentAmounts

SpecKeep == Init /\ [][NextKeep]_vars

(***************************************************************************)
(* Properties                                                              *)
(***************************************************************************)
\* the six keys of the specification
SixKeys == {"monthly", "semi_monthly", "bi_weekly", "weekly",
            "rapid_biweekly", "rapid_weekly"}
OrdinaryKeys == {"monthly", "semi_monthly", "bi_weekly", "weekly"}

\* 0.01
OneCent == Scale \div 100

\* a build_schedule_df call got past its key lookup
Built == phase = "ok" /\ call = "build" /\ error = ""
\* ... and has left its loop
LoopLeft == Built /\ pc # "loop"
\* ... and has returned
Returned == Built /\ pc = "idle"

NumRows == Len(rows)
NumTermPeriods == params.term_years * FREQS[key].m

\* in row i the scheduled payment would overpay the balance
CapTriggers(i) ==
    locals.payment - rows[i].Interest > rows[i].StartBalance

\* C1: no row has a negative EndBalance, no row's EndBalance is above its
\* StartBalance, and the EndBalance never rises from one row to the next.
C1_BalanceNeverRises ==
    Built =>
        \A i \in 1..NumRows :
            /\ rows[i].EndBalance >= 0
            /\ rows[i].EndBalance <= rows[i].StartBalance
            /\ i > 1 => rows[i].EndBalance <= rows[i - 1].EndBalance

\* the invariants of the parameters: principal > 0, rate >= 0,
\* 1 <= termYears <= amortizationYears
ParamsValid(p) ==
    /\ p.principal > 0
    /\ p.quoted_rate_percent >= 0
    /\ p.amort_years >= 1
    /\ p.term_years >= 1
    /\ p.term_years <= p.amort_years

\* the message names a field of p that violates its invariant
NamesOffender(msg, p) ==
    \/ msg = "Principal must be positive." /\ p.principal <= 0
    \/ msg = "Quoted rate percent must be non-negative."
          /\ p.quoted_rate_percent < 0
    \/ msg = "Amortization years must be positive." /\ p.amort_years < 1
    \/ msg = "Term years must be positive." /\ p.term_years < 1
    \/ msg = "Term years cannot exceed amortization years."
          /\ p.term_years > p.amort_years

C3_RowCount ==
    Built =>
        /\ locals.n_term = NumTermPeriods
        /\ NumRows <= NumTermPeriods
        /\ t <= NumTermPeriods
        /\ pc = "loop" => NumRows = t - 1
        /\ \A i \in 1..(NumRows - 1) : rows[i].EndBalance > OneCent
        /\ LoopLeft =>
              /\ NumRows >= 1
              /\ NumRows < NumTermPeriods => rows[NumRows].EndBalance <= OneCent

\* a schedule cut short by the near-zero test, not by the cap
C3_Witness ==
    /\ Returned
    /\ NumRows >= 1
    /\ NumRows < NumTermPeriods
    /\ rows[NumRows].EndBalance > 0
    /\ rows[NumRows].EndBalance <= OneCent

\* C4: build_schedule_df raises KeyError exactly for a key outside the six,
\* and then has produced no row and computed no rate, payment or balance.
C4_UnknownKey ==
    call = "build" =>
        /\ key \notin SixKeys <=> error = "KeyError"
        /\ key \notin SixKeys =>
              /\ rows = <<>>
              /\ locals.r = None /\ locals.payment = None
              /\ locals.n_term = None /\ balance = None
              /\ pc = "idle"

C4_Witness ==
    call = "build" /\ key = "daily" /\ error = "KeyError" /\ rows = <<>>

\* C5: before rounding, the rapid amounts of payment_amounts are the cached
\* standard monthly payment halved and quartered (to the last digit kept),
\* the ordinary ones are level_payment at the key's payments per year, the
\* returned amounts are these rounded to cents, and the payment a schedule
\* is built with is the unrounded amount payment_amounts has for its key.
C5_RapidFromMonthly ==
    /\ phase = "ok" =>
          smp = level_payment(params.principal, params.quoted_rate_percent,
                              params.amort_years, 12)
    /\ call = "payment_amounts" =>
          /\ 2 * payments_raw["rapid_biweekly"] - smp \in {0, 1}
          /\ 4 * payments_raw["rapid_weekly"] - smp \in (0 - 2)..2
          /\ \A k \in OrdinaryKeys :
                payments_raw[k] =
                    level_payment(params.principal, params.quoted_rate_percent,
                                  params.amort_years, FREQS[k].m)
          /\ \A k \in SixKeys :
                /\ payments[k] % OneCent = 0
                /\ 2 * (payments[k] - payments_raw[k]) \in (0 - OneCent)..OneCent
          /\ key \in SixKeys => locals.payment = payments_raw[key]
    /\ Built /\ key = "rapid_biweekly" => 2 * locals.payment - smp \in {0, 1}
    /\ Built /\ key = "rapid_weekly" => 4 * locals.payment - smp \in (0 - 2)..2

\* payment_amounts called after a rapid schedule was built, the rapid amount
\* differing from the level payment solved at 52 payments a year
C5_Witness ==
    /\ phase = "ok"
    /\ call = "payment_amounts"
    /\ key = "rapid_weekly"
    /\ locals.payment = payments_raw["rapid_weekly"]
    /\ locals.payment #
          level_payment(params.principal, params.quoted_rate_percent,
                        params.amort_years, 52)

\* C6: with the level payment of an ordinary frequency and a term as long
\* as the amortization, the balance is not paid off before the last of the
\* amortYears * paymentsPerYear periods (no earlier row ends at 0 or below,
\* none is capped), and the schedule ends with a balance within a cent of 0.
C6_LevelPaymentAmortizes ==
    Built /\ key \in OrdinaryKeys /\ params.term_years = params.amort_years =>
        /\ \A i \in 1..NumRows :
              rows[i].Period < params.amort_years * FREQS[key].m =>
                  rows[i].EndBalance > 0 /\ ~CapTriggers(i)
        /\ LoopLeft => rows[NumRows].EndBalance <= OneCent

\* C7: a row in which the scheduled payment would overpay the balance
\* records the payment StartBalance + Interest and the EndBalance 0 and is
\* the last row, the loop having stopped; every other row records the
\* scheduled payment.
C7_EarlyPayoffCap ==
    Built =>
        \A i \in 1..NumRows :
            IF CapTriggers(i)
            THEN /\ rows[i].Payment = rows[i].StartBalance + rows[i].Interest
                 /\ rows[i].EndBalance = 0
                 /\ i = NumRows
                 /\ pc # "loop"
            ELSE rows[i].Payment = locals.payment

\* a capped last row, with interest, paying less than the scheduled payment
C7_Witness ==
    /\ Returned
    /\ NumRows >= 1
    /\ CapTriggers(NumRows)
    /\ rows[NumRows].Interest > 0
    /\ rows[NumRows].Payment < locals.payment

\* C8 as stated: the cap triggers only in the last scheduled period,
\* t = termYears * paymentsPerYear.
C8_CapOnlyInLastScheduledPeriod ==
    Built =>
        \A i \in 1..NumRows :
            CapTriggers(i) => rows[i].Period = NumTermPeriods

\* C8, amended: the cap triggers at most once, in a period
\* t <= termYears * paymentsPerYear that is the last period recorded; it
\* need not be the last scheduled period.
C8_CapOnlyInLastRecordedPeriod ==
    Built =>
        \A i \in 1..NumRows :
            CapTriggers(i) =>
                /\ rows[i].Period <= NumTermPeriods
                /\ rows[i].Period = rows[NumRows].Period
                /\ \A j \in 1..NumRows : CapTriggers(j) => j = i

\* a rapid schedule at 5.49% capped before its last scheduled period
C8_Witness ==
    /\ Returned
    /\ key \in {"rapid_biweekly", "rapid_weekly"}
    /\ params.quoted_rate_percent = 5490000
    /\ NumRows >= 1
    /\ CapTriggers(NumRows)
    /\ rows[NumRows].Period < NumTermPeriods

\* C9: whatever was called, params and the two cached fields are as
\* construction left them, and a schedule built for the key of a frame a
\* caller kept from an earlier call has the rows of that frame.
C9_CallsLeaveObjectAlone ==
    phase = "ok" =>
        /\ params = ctor.params
        /\ ear = ctor.ear
        /\ smp = ctor.smp
        /\ LoopLeft /\ kept.key = key => rows = kept.rows

\* a second build for a key, about to return, the frame of the first kept
C9_Witness ==
    /\ Built
    /\ pc = "return"
    /\ kept.key = key
    /\ key = "rapid_biweekly"
    /\ Len(kept.rows) > 1
    /\ rows = kept.rows

====
